---- MODULE Spec2Model ----
(***************************************************************************)
(* Model of the OTA update manager of deye-dashboard (update_manager.py).  *)
(*                                                                         *)
(* UpdateManager: update_to_tag is called from request handler threads;    *)
(* an accepted call starts one background thread running _do_update.       *)
(* Every statement that touches shared state (the update lock, the status  *)
(* record) is one atomic step; the steps of different threads interleave   *)
(* freely.  External commands (subprocess.run) are steps whose outcome is  *)
(* chosen by the environment: exit 0, a non-zero exit with stderr text, or *)
(* an exception (TimeoutExpired, OSError).                                 *)
(*                                                                         *)
(* UpdatePoller: the thread of _run calls _fetch in a loop; _fetch asks    *)
(* the remote for the tag feed, reads the current version with git         *)
(* describe, builds a snapshot and stores it in the cache under the cache  *)
(* lock.  The response and the describe outcome are chosen by the          *)
(* environment.  A version string is a sequence of chunks, so that         *)
(* str.startswith is the prefix relation on sequences.                     *)
(*                                                                         *)
(* Text is modelled as a sequence of tokens: an f-string is the            *)
(* concatenation of its literal parts and its arguments.                   *)
(***************************************************************************)
EXTENDS Integers, Sequences, FiniteSets, Bags, TLC

\* ------------------------------------------------------------------ bounds
\* Total number of update_to_tag calls made in a behaviour; each call is
\* its own request thread, so this also bounds the concurrent callers.
MaxCalls == 2

\* Total number of _fetch calls the thread of _run starts in a behaviour.
MaxFetches == 2

\* The largest number of entries in the tag feed the remote returns.
MaxFeedLen == 2

\* Total number of force_check calls made in a behaviour.
MaxForced == 1

\* The number of values returned by status and data that callers hold.
MaxReads == 1

\* requests without a target tag that the HTTP layer answers
MaxBadRequests == 1

\* ------------------------------------------------------------ input domains
Tags == {"v1.3.0", "v1.2.0"}

\* stderr as captured from a failing command (text=True), before .strip()
Stderrs == {<<"\n", "fatal: failed", "\n">>}

\* str(e) of an exception raised by subprocess.run
ExcTexts == {<<"timed out">>}

\* Python's None, distinct from every text the program builds
None == <<"None">>

VARIABLES
    lock,      \* UpdateManager._lock: TRUE when held
    status,    \* UpdateManager._status
    now,       \* the clock read by datetime.now(): ticks at every read
    calls,     \* the request threads inside update_to_tag: a bag of [tag, pc]
    made,      \* history: the number of update_to_tag calls made
    accepted,  \* history: per tag, the calls that returned True
    rejected,  \* history: per tag, the calls that returned False
    runs,      \* the live _do_update threads
    ended,     \* history: the _do_update thread that ended last
    checkouts, \* history: per tag, the git checkout commands executed
    cache,     \* UpdatePoller._cache: <<>> is the empty dict
    fetchers,  \* the threads that call UpdatePoller._fetch
    fetched,   \* history: the number of _fetch calls the thread of _run started
    lastfetch, \* history: the _fetch call that ended last
    world,     \* the deployment: is git installed, is the directory a repository
    pre,       \* the thread inside UpdateManager.preflight_check
    held,      \* the values status and data returned that callers still hold
    replies,   \* history: the replies of the apply and rollback endpoints
    forced,    \* history: the force_check calls that returned
    locks      \* the threads inside "with self._status_lock" and
               \* "with self._lock" of the poller

\* the variables of the update manager, the clock aside
mvars == <<lock, status, calls, made, accepted, rejected, runs, ended,
           checkouts>>

\* the variables of the update poller, the clock aside
pvars == <<cache, fetchers, fetched, lastfetch>>

\* the variables of the deployment and of the callers
xvars == <<world, pre, held, replies, forced, locks>>

vars == <<lock, status, now, calls, made, accepted, rejected, runs, ended,
          checkouts, cache, fetchers, fetched, lastfetch, world, pre, held,
          replies, forced, locks>>

\* ------------------------------------------------------------ text helpers
\* t.startswith(s)
IsPrefix(s, t) == Len(s) <= Len(t) /\ s = SubSeq(t, 1, Len(s))

Whitespace == {" ", "\n", "\t"}

RECURSIVE lstrip(_)
lstrip(s) ==
    IF s # <<>> /\ Head(s) \in Whitespace THEN lstrip(Tail(s)) ELSE s

RECURSIVE rstrip(_)
rstrip(s) ==
    IF s # <<>> /\ s[Len(s)] \in Whitespace
    THEN rstrip(SubSeq(s, 1, Len(s) - 1))
    ELSE s

\* str.strip()
strip(s) == rstrip(lstrip(s))

\* s without its k-th element
RemoveAt(s, k) == SubSeq(s, 1, k - 1) \o SubSeq(s, k + 1, Len(s))

\* x in s, for a token x
Contains(s, x) == \E i \in 1..Len(s) : s[i] = x

\* ------------------------------------------------------- the status record
\* UpdateManager.__init__: the initial status; timestamp None is 0 here,
\* the clock starts at 1.
InitStatus ==
    [state |-> "idle", message |-> <<>>, error |-> None, timestamp |-> 0]

\* UpdateManager._set_status(state, message="", error=None), reading the
\* clock value t: the whole record is replaced.
set_status(state, message, error, t) ==
    [state |-> state, message |-> message, error |-> error, timestamp |-> t]

\* --------------------------------------------------------- the update lock
\* a lock whose acquire succeeds although the lock is held
acquire_unguarded(l) == [ok |-> TRUE, lock |-> TRUE]

\* self._lock.acquire(blocking=False) on a lock whose state is l:
\* ok tells whether the lock was acquired, lock is the lock's new state.
acquire_nonblocking(l) == [ok |-> ~l, lock |-> TRUE]

\* a release that leaves the lock as it is
release_noop(l) == l

\* self._lock.release()
release(l) == FALSE

\* ------------------------------------------------- update_to_tag (caller)
AlreadyInProgress == <<"Update already in progress">>

\* a rejected call that writes no status
RejectedStatusKept(old, t) == old

\* a rejected call that assigns two keys of the status dict in place
RejectedStatusPartial(old, t) ==
    [old EXCEPT !.state = "error", !.error = AlreadyInProgress]

\* the status after a rejected call: _set_status("error", error=...) on the
\* status old, reading the clock value t
RejectedStatus(old, t) == set_status("error", <<>>, AlreadyInProgress, t)

\* ---------------------------------------------------- _do_update (thread)
\* Positions of a run: s_* writes a status, c_* runs an external command.
WritePcs == {"s_fetching", "s_checkout", "s_pip", "s_restart", "s_idle", "s_error"}
CommandPcs == {"c_fetch", "c_checkout", "c_pip", "c_restart"}

\* the command run at each position
CommandAt(pc) ==
    CASE pc = "c_fetch"    -> "fetch"
      [] pc = "c_diff"     -> "diff"
      [] pc = "c_checkout" -> "checkout"
      [] pc = "c_pip"      -> "pip"
      [] pc = "c_restart"  -> "restart"

\* outcomes of subprocess.run: exit 0, non-zero exit with stderr, exception
Outcomes ==
    {[kind |-> "ok", text |-> <<>>]}
    \cup {[kind |-> "nonzero", text |-> s] : s \in Stderrs}
    \cup {[kind |-> "raise", text |-> x] : x \in ExcTexts}

\* outcomes of the manifest diff: its exit code is never read, only whether
\* stdout lists requirements.txt, unless the command raises
DiffOutcomes ==
    {[kind |-> k, listed |-> b] : k \in {"ok", "nonzero"}, b \in BOOLEAN}
    \cup {[kind |-> "raise", listed |-> FALSE]}

\* UpdateManager._requirements_changed
requirements_changed(o) ==
    IF o.kind = "raise" THEN TRUE ELSE o.listed

\* the thread started by update_to_tag for tag
\* written and cmds are the history of the thread: the statuses it wrote and
\* the commands it ran, each with the kind of its outcome; stderr is the
\* stderr (or exception text) of the last command, listed whether the
\* manifest diff printed requirements.txt.
NewRun(tag) ==
    [tag |-> tag, pc |-> "s_fetching", needs_pip |-> FALSE, err |-> None,
     end |-> "none", written |-> <<>>, cmds |-> <<>>, stderr |-> <<>>,
     listed |-> FALSE]

\* a rejected call that queues its tag: a thread is started for it
rejected_branch_queued(tag) == [started |-> <<NewRun(tag)>>, ret |-> FALSE]

\* update_to_tag, the lock was held: the threads it starts and what it returns
rejected_branch(tag) == [started |-> <<>>, ret |-> FALSE]

\* an accepted call that runs the first pipeline step itself before it
\* returns
accepted_branch_sync(tag) ==
    [started |-> <<[NewRun(tag) EXCEPT
                       !.pc = "c_diff",
                       !.written = <<[state |-> "updating",
                                      message |-> <<"Fetching tags...">>]>>,
                       !.cmds = <<[cmd |-> "fetch", kind |-> "ok"]>>]>>,
     ret |-> TRUE]

\* update_to_tag, the lock was acquired: the threads it starts and what it
\* returns
accepted_branch(tag) == [started |-> <<NewRun(tag)>>, ret |-> TRUE]

\* a release placed at the end of the try block: skipped when a step fails
releases_on_success(r) == r.end = "ok"

\* _do_update: the release is in the finally clause, so every way out of the
\* try block reaches it
finally_releases(r) == TRUE

\* the value of ended before any thread has ended
NoRun == [NewRun("") EXCEPT !.pc = "none"]

\* a pipeline that reports the restart step as one more "updating" step
StateAtFlat(pc) ==
    CASE pc = "s_idle"  -> "idle"
      [] pc = "s_error" -> "error"
      [] OTHER          -> "updating"

\* the state argument of the _set_status call at each writing position
StateAt(pc) ==
    CASE pc = "s_fetching" -> "updating"
      [] pc = "s_checkout" -> "updating"
      [] pc = "s_pip"      -> "updating"
      [] pc = "s_restart"  -> "restarting"
      [] pc = "s_idle"     -> "idle"
      [] pc = "s_error"    -> "error"

\* the message argument of the _set_status call at each writing position
MessageAt(pc, tag) ==
    CASE pc = "s_fetching" -> <<"Fetching tags...">>
      [] pc = "s_checkout" -> <<"Checking out ", tag, "...">>
      [] pc = "s_pip"      -> <<"Installing updated dependencies...">>
      [] pc = "s_restart"  -> <<"Restarting service after update to ", tag, "...">>
      [] pc = "s_idle"     -> <<"Updated to ", tag>>
      [] pc = "s_error"    -> <<>>

\* the arguments of the _set_status call at each writing position: only the
\* error writes pass error=
StatusArgs(r) ==
    [state |-> StateAt(r.pc), message |-> MessageAt(r.pc, r.tag),
     error |-> IF r.pc = "s_error" THEN r.err ELSE None]

\* a run that ends once it has written restarting, with no final status
AfterWriteEndsAtRestart(pc) ==
    CASE pc = "s_fetching" -> "c_fetch"
      [] pc = "s_checkout" -> "c_checkout"
      [] pc = "s_pip"      -> "c_pip"
      [] OTHER             -> "release"

\* where the run goes after each status write
AfterWrite(pc) ==
    CASE pc = "s_fetching" -> "c_fetch"
      [] pc = "s_checkout" -> "c_checkout"
      [] pc = "s_pip"      -> "c_pip"
      [] pc = "s_restart"  -> "c_restart"
      [] pc = "s_idle"     -> "release"
      [] pc = "s_error"    -> "release"

\* an error text that leaves the command's stderr out
FailedTextPrefixOnly(pc, stderr) ==
    CASE pc = "c_fetch"    -> <<"git fetch failed: ">>
      [] pc = "c_checkout" -> <<"git checkout failed: ">>
      [] pc = "c_pip"      -> <<"pip install failed: ">>
      [] OTHER             -> None

\* the error text of a failed step: f"git fetch failed: {result.stderr.strip()}"
FailedText(pc, stderr) ==
    CASE pc = "c_fetch"    -> <<"git fetch failed: ">> \o strip(stderr)
      [] pc = "c_checkout" -> <<"git checkout failed: ">> \o strip(stderr)
      [] pc = "c_pip"      -> <<"pip install failed: ">> \o strip(stderr)
      [] OTHER             -> None

\* a pipeline that installs the dependencies after every checkout
AfterCheckoutAlwaysPip(needs_pip) == "s_pip"

\* _do_update after a successful checkout: if needs_pip
AfterCheckout(needs_pip) == IF needs_pip THEN "s_pip" ELSE "s_restart"

\* a pipeline that tests the return code of every command, the restart too
ChecksRestartToo(pc) == pc \in {"c_fetch", "c_checkout", "c_pip", "c_restart"}

\* a pipeline that tests no return code
ChecksNothing(pc) == FALSE

\* a pipeline that tests the return code of the fetch only
ChecksFetchOnly(pc) == pc = "c_fetch"

\* does _do_update test result.returncode after the command at pc
ChecksReturnCode(pc) == pc \in {"c_fetch", "c_checkout", "c_pip"}

\* the run after the command at r.pc ended with outcome o
AfterCommand(r, o) ==
    LET ran == [r EXCEPT !.cmds = Append(@, [cmd |-> CommandAt(r.pc),
                                             kind |-> o.kind]),
                         !.stderr = o.text] IN
    IF o.kind = "raise"
    THEN [ran EXCEPT !.pc = "s_error", !.err = o.text, !.end = "raise"]
    ELSE IF o.kind = "nonzero" /\ ChecksReturnCode(r.pc)
    THEN [ran EXCEPT !.pc = "s_error", !.err = FailedText(r.pc, o.text),
                     !.end = "nonzero"]
    ELSE CASE r.pc = "c_fetch"    -> [ran EXCEPT !.pc = "c_diff"]
           [] r.pc = "c_checkout" ->
                [ran EXCEPT !.pc = AfterCheckout(r.needs_pip)]
           [] r.pc = "c_pip"      -> [ran EXCEPT !.pc = "s_restart"]
           [] r.pc = "c_restart"  -> [ran EXCEPT !.pc = "s_idle", !.end = "ok"]

\* ------------------------------------------------------------------- Init
\* ------------------------------------------------------------ UpdatePoller
\* the value get_current_version returns when git describe fails
Unknown == <<"unknown">>

\* tag names of the remote feed; <<>> is the empty string
TagNames == {<<"v1.3">>, <<"v1.2">>, <<>>}

\* an entry of the feed: a JSON object with a name, or one without
Entries == {[name |-> n] : n \in TagNames} \cup {[node_id |-> <<"MDM6">>]}

Feeds == UNION {[1..m -> Entries] : m \in 0..MaxFeedLen}

\* what resp.json() gives: a list, another JSON value, or a ValueError
Payloads ==
    {[type |-> "list", items |-> f] : f \in Feeds}
        \cup {[type |-> "dict", items |-> <<>>],
              [type |-> "invalid", items |-> <<>>]}

\* the outcomes of requests.get: it raises, or returns a response that is
\* not ok, or an ok response with a payload
Responses ==
    {[kind |-> "raise", json |-> [type |-> "invalid", items |-> <<>>]],
     [kind |-> "notok", json |-> [type |-> "dict", items |-> <<>>]]}
        \cup {[kind |-> "ok", json |-> p] : p \in Payloads}

\* what git describe --tags --always prints: a tag, a tag with a
\* commit-distance suffix, the tag v1.20 (of which v1.2 is a string prefix),
\* a bare commit hash
Versions ==
    {<<"v1.3">>, <<"v1.2">>, <<"v1.2", "-5-gabc123">>, <<"v1.2", "0">>,
     <<"abc123">>}

\* the outcomes of the git describe command
DescribeOutcomes ==
    {[kind |-> "ok", stdout |-> v \o <<"\n">>] : v \in Versions}
        \cup {[kind |-> "nonzero", stdout |-> <<>>],
              [kind |-> "raise", stdout |-> <<>>]}

NoResp == [kind |-> "none", json |-> [type |-> "invalid", items |-> <<>>]]
NoDescribe == [kind |-> "none", stdout |-> <<>>]

\* a get_current_version that does not look at the return code
get_current_version_any_exit(o) ==
    IF o.kind = "raise"
    THEN [raised |-> FALSE, value |-> Unknown]
    ELSE [raised |-> FALSE, value |-> strip(o.stdout)]

\* get_current_version(): the stripped stdout when git describe exits 0,
\* "unknown" when it exits non-zero or raises (except Exception)
get_current_version(o) ==
    IF o.kind = "ok"
    THEN [raised |-> FALSE, value |-> strip(o.stdout)]
    ELSE [raised |-> FALSE, value |-> Unknown]

\* the request failed, the response is not ok, resp.json() raised, or the
\* payload is not a list
FetchFails(resp) == resp.kind # "ok" \/ resp.json.type # "list"

\* [t["name"] for t in tags if "name" in t]
RECURSIVE tag_names(_)
tag_names(tags) ==
    IF tags = <<>> THEN <<>>
    ELSE IF "name" \in DOMAIN Head(tags)
         THEN <<Head(tags).name>> \o tag_names(Tail(tags))
         ELSE tag_names(Tail(tags))

\* a latest tag taken from the end of the list
latest_of_last(names) == IF names # <<>> THEN names[Len(names)] ELSE None

\* tag_names[0] if tag_names else None
latest_of(names) == IF names # <<>> THEN names[1] ELSE None

\* bool(latest) for a latest tag that is None or a string
truthy(latest) == latest # None /\ latest # <<>>

\* an update_available that does not test for the unknown version
update_available_unknown_unchecked(latest, current) ==
    IF truthy(latest)
    THEN latest # current /\ ~IsPrefix(latest, current)
    ELSE FALSE

\* an update_available that compares for equality only
update_available_exact(latest, current) ==
    IF truthy(latest) /\ current # Unknown
    THEN latest # current
    ELSE FALSE

\* update_available = False
\* if latest and current != "unknown":
\*     update_available = latest != current and not current.startswith(latest)
update_available(latest, current) ==
    IF truthy(latest) /\ current # Unknown
    THEN latest # current /\ ~IsPrefix(latest, current)
    ELSE FALSE

\* the result dict of _fetch; t is datetime.now()
build_result(current, names, t) ==
    [current_version |-> current,
     latest_tag |-> latest_of(names),
     update_available |-> update_available(latest_of(names), current),
     available_tags |-> names,
     last_checked |-> t]

\* a store that keeps the tags list of the snapshot it finds
stored_merged(old, result) ==
    IF old # <<>>
    THEN [result EXCEPT !.available_tags = old.available_tags]
    ELSE result

\* the cache after self._cache = result, whatever it held
stored(old, result) == result

\* Python's None as returned by data
NoData == [none |-> TRUE]

\* UpdatePoller.data: dict(self._cache) if self._cache else None
data(c) == IF c # <<>> THEN c ELSE NoData

\* a failed fetch that empties the cache
failed_fetch_resets(c) == <<>>

\* the cache after a failed fetch: _fetch returns (or logs the exception
\* and returns) without assigning self._cache
failed_fetch(c) == c

\* the thread of _run at the top of its loop
LoopThread ==
    [kind |-> "run", pc |-> "loop", resp |-> NoResp, describe |-> NoDescribe,
     result |-> <<>>, before |-> <<>>]

\* the thread force_check started, about to call _fetch
ForcedThread == [LoopThread EXCEPT !.kind = "forced"]

\* a thread that goes on to sleep and fetch again, whoever started it
after_fetch_always_sleeps(kind, end) == "sleep"

\* a thread that ends when its _fetch call failed
after_fetch_fatal(kind, end) ==
    IF kind = "run" /\ end # "failed" THEN "sleep" ELSE "exit"

\* where a thread goes when its _fetch call has returned: the thread of _run
\* to time.sleep(self.poll_interval), a thread of force_check to its end
after_fetch(kind, end) == IF kind = "run" THEN "sleep" ELSE "exit"

\* the threads after the _fetch call of thread k returned
Returned(fs, k, end) ==
    IF after_fetch(fs[k].kind, end) = "exit"
    THEN RemoveAt(fs, k)
    ELSE [fs EXCEPT ![k] = [LoopThread EXCEPT !.pc = "sleep"]]

NoFetch ==
    [resp |-> NoResp, describe |-> NoDescribe, before |-> <<>>,
     end |-> "none"]

\* the record of the _fetch call of thread f, which ended as end; the cache
\* the call found is kept for a call that failed
FetchEnded(f, resp, describe, end) ==
    [resp |-> resp, describe |-> describe,
     before |-> IF end = "failed" THEN f.before ELSE <<>>, end |-> end]

\* ------------------------------------------------- deployment and callers
\* the deployments: git is installed or not, the working directory is a
\* repository or not, the working tree has uncommitted changes or not
Worlds == [git : BOOLEAN, repo : BOOLEAN, dirty : BOOLEAN]

HealthyWorld == [git |-> TRUE, repo |-> TRUE, dirty |-> FALSE]

\* UpdateManager._status_lock and UpdatePoller._lock as __init__ leaves
\* them: no thread is inside a with block
NoLocks == [status |-> "free", cache |-> "free"]

\* the restart probe has not been made
NoSudo == [kind |-> "none", rc |-> 0, stderr |-> <<>>]

\* no preflight_check call has been made
NoPreflight ==
    [pc |-> "none", issues |-> <<>>, ok |-> FALSE, probes |-> <<>>,
     sudo |-> NoSudo]

\* UpdateManager.__init__
InitManager ==
    /\ lock = FALSE
    /\ status = InitStatus
    /\ now = 1
    /\ calls = EmptyBag
    /\ made = 0
    /\ accepted = [t \in Tags |-> 0]
    /\ rejected = [t \in Tags |-> 0]
    /\ runs = <<>>
    /\ ended = NoRun
    /\ checkouts = [t \in Tags |-> 0]

\* UpdatePoller.__init__
InitPoller ==
    /\ cache = <<>>
    /\ fetchers = <<LoopThread>>
    /\ fetched = 0
    /\ lastfetch = NoFetch

\* no caller has done anything yet
InitCallers ==
    /\ pre = NoPreflight
    /\ held = <<>>
    /\ replies = <<>>
    /\ forced = 0
    /\ locks = NoLocks

Init ==
    /\ InitManager
    /\ InitPoller
    /\ InitCallers
    /\ world = HealthyWorld

\* ---------------------------------------------------------------- actions
\* the request thread c moves to position pc
Moved(c, pc) == (calls (-) SetToBag({c})) (+) SetToBag({[c EXCEPT !.pc = pc]})

\* A request handler enters update_to_tag(tag).
Call(tag) ==
    /\ made < MaxCalls
    /\ made' = made + 1
    /\ calls' = calls (+) SetToBag({[tag |-> tag, pc |-> "acquire"]})
    /\ UNCHANGED <<lock, status, now, accepted, rejected, runs, ended,
                   checkouts>>
    /\ UNCHANGED pvars
    /\ UNCHANGED xvars

\* update_to_tag: if not self._lock.acquire(blocking=False)
TryAcquire(c) ==
    /\ c.pc = "acquire"
    /\ LET a == acquire_nonblocking(lock) IN
        IF a.ok
        THEN /\ lock' = a.lock
             /\ calls' = Moved(c, "spawn")
        ELSE /\ lock' = lock
             /\ calls' = Moved(c, "reject")
    /\ UNCHANGED <<status, now, made, accepted, rejected, runs, ended,
                   checkouts>>
    /\ UNCHANGED pvars
    /\ UNCHANGED xvars

\* the request thread c returns ret from update_to_tag
Return(c, ret) ==
    /\ calls' = calls (-) SetToBag({c})
    /\ accepted' = IF ret THEN [accepted EXCEPT ![c.tag] = @ + 1] ELSE accepted
    /\ rejected' = IF ret THEN rejected ELSE [rejected EXCEPT ![c.tag] = @ + 1]

\* update_to_tag: self._set_status("error", ...); return False
Reject(c) ==
    /\ c.pc = "reject"
    /\ status' = RejectedStatus(status, now)
    /\ now' = now + 1
    /\ LET b == rejected_branch(c.tag) IN
        /\ runs' = runs \o b.started
        /\ Return(c, b.ret)
    /\ UNCHANGED <<lock, made, ended, checkouts>>
    /\ UNCHANGED pvars
    /\ UNCHANGED xvars

\* update_to_tag: threading.Thread(target=self._do_update, ...).start();
\* return True
Spawn(c) ==
    /\ c.pc = "spawn"
    /\ LET b == accepted_branch(c.tag) IN
        /\ runs' = runs \o b.started
        /\ Return(c, b.ret)
    /\ UNCHANGED <<lock, status, now, made, ended, checkouts>>
    /\ UNCHANGED pvars
    /\ UNCHANGED xvars

\* _do_update: one self._set_status(...) call
WriteStatus(k) ==
    /\ runs[k].pc \in WritePcs
    /\ LET a == StatusArgs(runs[k]) IN
        /\ status' = set_status(a.state, a.message, a.error, now)
        /\ runs' = [runs EXCEPT ![k].pc = AfterWrite(runs[k].pc),
                                ![k].written = Append(@, [state |-> a.state,
                                                          message |-> a.message])]
    /\ now' = now + 1
    /\ UNCHANGED <<lock, calls, made, accepted, rejected, ended, checkouts>>
    /\ UNCHANGED pvars
    /\ UNCHANGED xvars

\* _do_update: one subprocess.run(...) of fetch, checkout, pip or restart
RunCommand(k, o) ==
    /\ runs[k].pc \in CommandPcs
    /\ runs' = [runs EXCEPT ![k] = AfterCommand(runs[k], o)]
    /\ checkouts' = IF runs[k].pc = "c_checkout"
                    THEN [checkouts EXCEPT ![runs[k].tag] = @ + 1]
                    ELSE checkouts
    /\ UNCHANGED <<lock, status, now, calls, made, accepted, rejected, ended>>
    /\ UNCHANGED pvars
    /\ UNCHANGED xvars

\* _do_update: needs_pip = self._requirements_changed(tag)
CheckRequirements(k, o) ==
    /\ runs[k].pc = "c_diff"
    /\ runs' = [runs EXCEPT ![k].pc = "s_checkout",
                            ![k].needs_pip = requirements_changed(o),
                            ![k].listed = o.listed,
                            ![k].cmds = Append(@, [cmd |-> "diff",
                                                   kind |-> o.kind])]
    /\ UNCHANGED <<lock, status, now, calls, made, accepted, rejected, ended,
                   checkouts>>
    /\ UNCHANGED pvars
    /\ UNCHANGED xvars

\* _do_update: finally: self._lock.release(); the thread ends
Release(k) ==
    /\ runs[k].pc = "release"
    /\ lock' = IF finally_releases(runs[k]) THEN release(lock) ELSE lock
    /\ runs' = RemoveAt(runs, k)
    /\ ended' = [runs[k] EXCEPT !.pc = "done"]
    /\ UNCHANGED <<status, now, calls, made, accepted, rejected, checkouts>>
    /\ UNCHANGED pvars
    /\ UNCHANGED xvars

Next ==
    \/ \E tag \in Tags : Call(tag)
    \/ \E c \in BagToSet(calls) : TryAcquire(c)
    \/ \E c \in BagToSet(calls) : Reject(c)
    \/ \E c \in BagToSet(calls) : Spawn(c)
    \/ \E k \in DOMAIN runs : WriteStatus(k)
    \/ \E k \in DOMAIN runs : \E o \in Outcomes : RunCommand(k, o)
    \/ \E k \in DOMAIN runs : \E o \in DiffOutcomes : CheckRequirements(k, o)
    \/ \E k \in DOMAIN runs : Release(k)

Spec == Init /\ [][Next]_vars

\* Scheduling: a started thread keeps running, and every subprocess.run has a
\* timeout, so each command step ends; a request thread inside update_to_tag
\* runs to its return.  New calls are up to the callers: no fairness.
RunStep ==
    \E k \in DOMAIN runs :
        \/ WriteStatus(k)
        \/ \E o \in Outcomes : RunCommand(k, o)
        \/ \E o \in DiffOutcomes : CheckRequirements(k, o)
        \/ Release(k)

CallStep ==
    \E c \in BagToSet(calls) : TryAcquire(c) \/ Reject(c) \/ Spawn(c)

FairSpec == Spec /\ WF_vars(RunStep) /\ WF_vars(CallStep)

\* ------------------------------------------------------ UpdatePoller steps
\* the thread k calls _fetch, which starts requests.get
BeginFetch(k) ==
    /\ fetchers[k].pc = "loop"
    /\ fetchers[k].kind = "run" => fetched < MaxFetches
    /\ fetched' = IF fetchers[k].kind = "run" THEN fetched + 1 ELSE fetched
    /\ fetchers' = [fetchers EXCEPT ![k].pc = "get", ![k].before = cache]
    /\ UNCHANGED <<cache, lastfetch, now>>
    /\ UNCHANGED mvars
    /\ UNCHANGED xvars

\* requests.get ends as resp; a failure ends the _fetch call, a list goes on
\* to get_current_version
Get(k, resp) ==
    /\ fetchers[k].pc = "get"
    /\ IF FetchFails(resp)
       THEN /\ cache' = failed_fetch(cache)
            /\ fetchers' = Returned(fetchers, k, "failed")
            /\ lastfetch' = FetchEnded(fetchers[k], resp, NoDescribe, "failed")
       ELSE /\ fetchers' = [fetchers EXCEPT ![k].pc = "describe",
                                            ![k].resp = resp]
            /\ UNCHANGED <<cache, lastfetch>>
    /\ UNCHANGED <<fetched, now>>
    /\ UNCHANGED mvars
    /\ UNCHANGED xvars

\* git describe ends as o; _fetch builds the result, reading the clock
Describe(k, o) ==
    /\ fetchers[k].pc = "describe"
    /\ LET f == fetchers[k]
           g == get_current_version(o)
       IN  IF g.raised
           THEN /\ cache' = failed_fetch(cache)
                /\ fetchers' = Returned(fetchers, k, "failed")
                /\ lastfetch' = FetchEnded(f, f.resp, o, "failed")
                /\ UNCHANGED now
           ELSE /\ fetchers' =
                    [fetchers EXCEPT
                        ![k].pc = "store",
                        ![k].describe = o,
                        ![k].result =
                            build_result(g.value,
                                         tag_names(f.resp.json.items), now)]
                /\ now' = now + 1
                /\ UNCHANGED <<cache, lastfetch>>
    /\ UNCHANGED fetched
    /\ UNCHANGED mvars
    /\ UNCHANGED xvars

\* with self._lock: self._cache = result
Store(k) ==
    /\ fetchers[k].pc = "store"
    /\ cache' = stored(cache, fetchers[k].result)
    /\ fetchers' = Returned(fetchers, k, "stored")
    /\ lastfetch' = FetchEnded(fetchers[k], fetchers[k].resp,
                               fetchers[k].describe, "stored")
    /\ UNCHANGED <<fetched, now>>
    /\ UNCHANGED mvars
    /\ UNCHANGED xvars

\* _run: time.sleep(self.poll_interval) returns
Sleep(k) ==
    /\ fetchers[k].pc = "sleep"
    /\ fetchers' = [fetchers EXCEPT ![k].pc = "loop"]
    /\ UNCHANGED <<cache, fetched, lastfetch, now>>
    /\ UNCHANGED mvars
    /\ UNCHANGED xvars

\* force_check: threading.Thread(target=self._fetch, daemon=True).start()
ForceCheck ==
    /\ forced < MaxForced
    /\ forced' = forced + 1
    /\ fetchers' = Append(fetchers, ForcedThread)
    /\ UNCHANGED <<cache, fetched, lastfetch, now>>
    /\ UNCHANGED mvars
    /\ UNCHANGED <<world, pre, held, replies, locks>>

FetchNext ==
    \/ \E k \in DOMAIN fetchers : BeginFetch(k)
    \/ \E k \in DOMAIN fetchers : \E resp \in Responses : Get(k, resp)
    \/ \E k \in DOMAIN fetchers : \E o \in DescribeOutcomes : Describe(k, o)
    \/ \E k \in DOMAIN fetchers : Store(k)
    \/ \E k \in DOMAIN fetchers : Sleep(k)

\* the poller alone: the thread of _run fetching again and again
FetchSpec == Init /\ [][FetchNext]_vars

\* a few of the responses and of the describe outcomes, for the behaviours
\* where fetches overlap
SomeResponses ==
    {[kind |-> "raise", json |-> [type |-> "invalid", items |-> <<>>]]}
        \cup {[kind |-> "ok",
                json |-> [type |-> "list", items |-> <<[name |-> n]>>]] :
                    n \in {<<"v1.3">>, <<"v1.2">>}}

SomeDescribes ==
    {[kind |-> "ok", stdout |-> <<"v1.2", "\n">>],
     [kind |-> "nonzero", stdout |-> <<>>]}

\* a step of a thread that calls _fetch
FetchStep ==
    \E k \in DOMAIN fetchers :
        \/ BeginFetch(k)
        \/ \E resp \in SomeResponses : Get(k, resp)
        \/ \E o \in SomeDescribes : Describe(k, o)
        \/ Store(k)
        \/ Sleep(k)

PollerNext ==
    \/ ForceCheck
    \/ \E k \in DOMAIN fetchers : BeginFetch(k)
    \/ \E k \in DOMAIN fetchers : \E resp \in SomeResponses : Get(k, resp)
    \/ \E k \in DOMAIN fetchers : \E o \in SomeDescribes : Describe(k, o)
    \/ \E k \in DOMAIN fetchers : Store(k)
    \/ \E k \in DOMAIN fetchers : Sleep(k)

\* the poller with force_check calls: the periodic fetches and the forced
\* ones overlap
PollerSpec == Init /\ [][PollerNext]_vars

\* Scheduling: a started thread keeps running; requests.get and git describe
\* have timeouts and time.sleep returns.  force_check calls are up to the
\* callers: no fairness.
PollerFairSpec == PollerSpec /\ WF_vars(FetchStep)

\* -------------------------------------------------------- preflight_check
\* the texts of the issues, word by word
GitMissing == <<"git", "is", "not", "installed">>
NotARepository == <<"Not", "a", "git", "repository">>
VenvMissing == <<"Virtual", "environment", "(venv)", "not", "found">>
SudoNotConfigured ==
    <<"sudo", "systemctl", "not", "configured", "(passwordless)">>
CannotRunSudo == <<"Cannot", "run", "sudo", "systemctl">>

\* subprocess.run(["git", "--version"], timeout=5) in the deployment w: the
\* executable is not found, or it runs (its exit code is not read), or it
\* does not end in time
GitVersionOutcomes(w) ==
    IF w.git THEN {"ok", "nonzero", "timeout"} ELSE {"notfound"}

\* subprocess.run(["git", "rev-parse", "--is-inside-work-tree"], timeout=5)
\* in the deployment w
RevParseOutcomes(w) ==
    IF ~w.git THEN {"notfound"}
    ELSE IF w.repo THEN {"ok", "timeout"} ELSE {"nonzero", "timeout"}

\* is_git_repo: result.returncode == 0, and False for every exception
is_git_repo(o) == o = "ok"

\* the exit codes of sudo -n systemctl is-active --quiet: active, inactive,
\* failed (or sudo refusing), no such unit
ProbeCodes == {0, 3, 1, 4}

ProbeStderrs ==
    {<<>>, <<"sudo", ":", "a", "password", "is", "required", "\n">>,
     <<"Failed", "to", "connect", "to", "bus", "\n">>}

\* the outcomes of the restart probe
SudoOutcomes ==
    [kind : {"exit"}, rc : ProbeCodes, stderr : ProbeStderrs]
        \cup {[kind |-> "raise", rc |-> 0, stderr |-> <<>>]}

\* preflight_check after the probe of git that continues after finding no
\* executable
git_probe_continues(o) ==
    IF o = "notfound" THEN [pc |-> "repo", issues |-> <<GitMissing>>]
    ELSE IF o = "timeout" THEN [pc |-> "raised", issues |-> <<>>]
    ELSE [pc |-> "repo", issues |-> <<>>]

\* preflight_check after subprocess.run(["git", "--version"]): only
\* FileNotFoundError is caught, and it ends the call
git_probe(o) ==
    IF o = "notfound" THEN [pc |-> "done", issues |-> <<GitMissing>>]
    ELSE IF o = "timeout" THEN [pc |-> "raised", issues |-> <<>>]
    ELSE [pc |-> "repo", issues |-> <<>>]

\* preflight_check: the issues after the restart probe with the outcome o
sudo_probe(issues, o) ==
    IF o.kind = "raise" THEN Append(issues, CannotRunSudo)
    ELSE IF o.rc \notin {0, 3} /\ Contains(o.stderr, "sudo")
         THEN Append(issues, SudoNotConfigured)
         ELSE issues

\* a result that is ok whatever the issues
preflight_ok_always(issues) == TRUE

\* preflight_check: return len(issues) == 0, issues
preflight_ok(issues) == Len(issues) = 0

\* a caller enters preflight_check: issues = []
PreflightCall ==
    /\ pre.pc \in {"none", "done", "raised"}
    /\ pre' = [NoPreflight EXCEPT !.pc = "git"]
    /\ UNCHANGED <<world, held, replies, forced, locks>>
    /\ UNCHANGED <<now, mvars, pvars>>

\* preflight_check: subprocess.run(["git", "--version"], ...)
ProbeGit(o) ==
    /\ pre.pc = "git"
    /\ LET g == git_probe(o) IN
        pre' = [pre EXCEPT !.pc = g.pc, !.issues = g.issues, !.ok = FALSE,
                           !.probes = Append(@, [cmd |-> "git", out |-> o])]
    /\ UNCHANGED <<world, held, replies, forced, locks>>
    /\ UNCHANGED <<now, mvars, pvars>>

\* preflight_check: if not self.is_git_repo(): ... return False, issues
ProbeRepo(o) ==
    /\ pre.pc = "repo"
    /\ pre' = [pre EXCEPT
                !.pc = IF is_git_repo(o) THEN "venv" ELSE "done",
                !.issues = IF is_git_repo(o) THEN @
                           ELSE Append(@, NotARepository),
                !.ok = FALSE,
                !.probes = Append(@, [cmd |-> "repo", out |-> o])]
    /\ UNCHANGED <<world, held, replies, forced, locks>>
    /\ UNCHANGED <<now, mvars, pvars>>

\* preflight_check: if not os.path.isdir(venv_path): issues.append(...)
CheckVenv(isdir) ==
    /\ pre.pc = "venv"
    /\ pre' = [pre EXCEPT
                !.pc = "sudo",
                !.issues = IF isdir THEN @ ELSE Append(@, VenvMissing),
                !.probes = Append(@, [cmd |-> "venv",
                                      out |-> IF isdir THEN "ok"
                                              ELSE "absent"])]
    /\ UNCHANGED <<world, held, replies, forced, locks>>
    /\ UNCHANGED <<now, mvars, pvars>>

\* preflight_check: the restart probe, and return len(issues) == 0, issues
ProbeSudo(o) ==
    /\ pre.pc = "sudo"
    /\ LET issues == sudo_probe(pre.issues, o) IN
        pre' = [pre EXCEPT
                 !.pc = "done",
                 !.issues = issues,
                 !.ok = preflight_ok(issues),
                 !.sudo = o,
                 !.probes = Append(@, [cmd |-> "sudo", out |-> o.kind])]
    /\ UNCHANGED <<world, held, replies, forced, locks>>
    /\ UNCHANGED <<now, mvars, pvars>>

PreflightNext ==
    \/ PreflightCall
    \/ \E o \in GitVersionOutcomes(world) : ProbeGit(o)
    \/ \E o \in RevParseOutcomes(world) : ProbeRepo(o)
    \/ \E isdir \in BOOLEAN : CheckVenv(isdir)
    \/ \E o \in SudoOutcomes : ProbeSudo(o)

\* a manager and a poller just built, in any of the deployments
PreflightInit ==
    /\ InitManager
    /\ InitPoller
    /\ InitCallers
    /\ world \in Worlds

\* preflight_check in each of the deployments
PreflightSpec == PreflightInit /\ [][PreflightNext]_vars

\* ------------------------------------------- update_to_tag by deployment
\* the text of the FileNotFoundError of a command whose executable is missing
NotFoundText == <<"[Errno 2] No such file or directory: 'git'">>

\* the commands of the pipeline that run git
GitCommands == {"fetch", "checkout"}

\* the outcomes of the pipeline command cmd in the deployment w: without git
\* subprocess.run raises FileNotFoundError, outside a repository git exits
\* non-zero
WorldOutcomes(w, cmd) ==
    IF cmd \notin GitCommands THEN Outcomes
    ELSE IF ~w.git THEN {[kind |-> "raise", text |-> NotFoundText]}
    ELSE IF ~w.repo THEN {o \in Outcomes : o.kind = "nonzero"}
    ELSE Outcomes

\* the outcomes of the manifest diff in the deployment w
WorldDiffOutcomes(w) ==
    IF ~w.git THEN {[kind |-> "raise", listed |-> FALSE]}
    ELSE IF ~w.repo THEN {[kind |-> "nonzero", listed |-> FALSE]}
    ELSE DiffOutcomes

\* a preflight blocker is present in the deployment w
Blocker(w) == ~w.git \/ ~w.repo

GateInit ==
    /\ InitManager
    /\ InitPoller
    /\ InitCallers
    /\ world \in {w \in Worlds : ~w.dirty}

GateNext ==
    \/ \E tag \in Tags : Call(tag)
    \/ \E c \in BagToSet(calls) : TryAcquire(c)
    \/ \E c \in BagToSet(calls) : Reject(c)
    \/ \E c \in BagToSet(calls) : Spawn(c)
    \/ \E k \in DOMAIN runs : WriteStatus(k)
    \/ \E k \in DOMAIN runs :
            /\ runs[k].pc \in CommandPcs
            /\ \E o \in WorldOutcomes(world, CommandAt(runs[k].pc)) :
                    RunCommand(k, o)
    \/ \E k \in DOMAIN runs : \E o \in WorldDiffOutcomes(world) :
            CheckRequirements(k, o)
    \/ \E k \in DOMAIN runs : Release(k)

\* the update manager in each of the deployments, the commands ending as
\* the deployment makes them end
GateSpec == GateInit /\ [][GateNext]_vars

\* ------------------------------------------------------------ the readers
\* the identity of the list object that is available_tags in the snapshot
\* c: each _fetch call builds its own list, at its own reading of the clock
ListOf(c) == IF c # <<>> THEN c.last_checked ELSE 0

\* a caller reads UpdatePoller.data and keeps the value: dict(self._cache)
\* is a new dict whose values are the objects the cached dict refers to
ReadData ==
    /\ Len(held) < MaxReads
    /\ held' = Append(held, [kind |-> "data", value |-> data(cache),
                             list |-> ListOf(cache)])
    /\ UNCHANGED <<world, pre, replies, forced, locks>>
    /\ UNCHANGED <<now, mvars, pvars>>

\* a caller reads UpdateManager.status and keeps the value
ReadStatus ==
    /\ Len(held) < MaxReads
    /\ held' = Append(held, [kind |-> "status", value |-> status, list |-> 0])
    /\ UNCHANGED <<world, pre, replies, forced, locks>>
    /\ UNCHANGED <<now, mvars, pvars>>

\* the text a caller adds to a list it was given
CallerTag == <<"mine">>

\* the snapshot d after available_tags.append(CallerTag)
Appended(d) == [d EXCEPT !.available_tags = Append(@, CallerTag)]

\* the caller holding held[i] appends to its available_tags: the list
\* object changes, for every dict that refers to it
MutateTags(i) ==
    /\ held[i].kind = "data"
    /\ held[i].value # NoData
    /\ ~Contains(held[i].value.available_tags, CallerTag)
    /\ held' = [j \in DOMAIN held |->
                    IF held[j].kind = "data" /\ held[j].value # NoData
                            /\ held[j].list = held[i].list
                    THEN [held[j] EXCEPT !.value = Appended(@)]
                    ELSE held[j]]
    /\ cache' = IF ListOf(cache) = held[i].list THEN Appended(cache) ELSE cache
    /\ UNCHANGED <<fetchers, fetched, lastfetch>>
    /\ UNCHANGED <<world, pre, replies, forced, locks>>
    /\ UNCHANGED <<now, mvars>>

\* the caller holding held[i] assigns to a key of the dict it was given
MutateField(i) ==
    /\ held[i].kind = "data"
    /\ held[i].value # NoData
    /\ held[i].value.current_version # CallerTag
    /\ held' = [held EXCEPT ![i].value.current_version = CallerTag]
    /\ UNCHANGED <<world, pre, replies, forced, locks>>
    /\ UNCHANGED <<now, mvars, pvars>>

CopyNext ==
    \/ \E k \in DOMAIN fetchers : BeginFetch(k)
    \/ \E k \in DOMAIN fetchers : \E resp \in SomeResponses : Get(k, resp)
    \/ \E k \in DOMAIN fetchers : \E o \in SomeDescribes : Describe(k, o)
    \/ \E k \in DOMAIN fetchers : Store(k)
    \/ \E k \in DOMAIN fetchers : Sleep(k)
    \/ ReadData
    \/ \E i \in DOMAIN held : MutateTags(i)
    \/ \E i \in DOMAIN held : MutateField(i)

\* the poller with callers that read data and change what they were given
CopySpec == Init /\ [][CopyNext]_vars

\* a few of the outcomes of the pipeline's commands, for the behaviours with
\* readers
SomeOutcomes == {o \in Outcomes : o.kind = "ok"}
SomeDiffOutcomes == {o \in DiffOutcomes : o.kind = "ok" /\ ~o.listed}

\* the callers let go of the values they hold
Forget ==
    /\ held # <<>>
    /\ held' = <<>>
    /\ UNCHANGED <<world, pre, replies, forced, locks>>
    /\ UNCHANGED <<now, mvars, pvars>>

\* A value a caller holds is local to the caller: the other threads step
\* when it has been let go of, which leaves out no value a read can return.
ReadNext ==
    \/ ReadStatus
    \/ ReadData
    \/ Forget
    \/ held = <<>> /\ \E tag \in {"v1.3.0"} : Call(tag)
    \/ held = <<>> /\ \E c \in BagToSet(calls) : TryAcquire(c)
    \/ held = <<>> /\ \E c \in BagToSet(calls) : Reject(c)
    \/ held = <<>> /\ \E c \in BagToSet(calls) : Spawn(c)
    \/ held = <<>> /\ \E k \in DOMAIN runs : WriteStatus(k)
    \/ held = <<>> /\ \E k \in DOMAIN runs : \E o \in SomeOutcomes :
                        RunCommand(k, o)
    \/ held = <<>> /\ \E k \in DOMAIN runs : \E o \in SomeDiffOutcomes :
                        CheckRequirements(k, o)
    \/ held = <<>> /\ \E k \in DOMAIN runs : Release(k)
    \/ held = <<>> /\ \E k \in DOMAIN fetchers : BeginFetch(k)
    \/ held = <<>> /\ \E k \in DOMAIN fetchers : \E resp \in SomeResponses :
                        Get(k, resp)
    \/ held = <<>> /\ \E k \in DOMAIN fetchers : \E o \in SomeDescribes :
                        Describe(k, o)
    \/ held = <<>> /\ \E k \in DOMAIN fetchers : Store(k)
    \/ held = <<>> /\ \E k \in DOMAIN fetchers : Sleep(k)

\* the update manager and the poller with callers that read status and data
ReadSpec == Init /\ [][ReadNext]_vars

\* -------------------------------------- the apply and rollback requests
\* the two requests of the HTTP layer that take a target tag
ApiKinds == {"apply", "rollback"}

\* the tag of a request body that has none
NoTag == ""

\* a handler that takes every body as one with a target tag
has_tag_always(tag) == TRUE

\* the handler's test of the request body: a target tag is there
has_tag(tag) == tag # NoTag

\* the answer to a request without a target tag: HTTP 400
BadRequest(kind, tag) == [kind |-> kind, tag |-> tag, code |-> 400]

\* the handler of POST /api/update/apply and /api/update/rollback: a body
\* without a tag is answered at once; otherwise the handler calls
\* update_to_tag(tag), and answers when the call returns
ApiRequest(kind, tag) ==
    IF has_tag(tag)
    THEN Call(tag)
    ELSE /\ Len(replies) < MaxBadRequests
         /\ replies' = Append(replies, BadRequest(kind, tag))
         /\ UNCHANGED <<world, pre, held, forced, locks>>
         /\ UNCHANGED <<now, mvars, pvars>>

ApiNext ==
    \/ \E kind \in ApiKinds : \E tag \in Tags \cup {NoTag} :
            ApiRequest(kind, tag)
    \/ \E c \in BagToSet(calls) : TryAcquire(c)
    \/ \E c \in BagToSet(calls) : Reject(c)
    \/ \E c \in BagToSet(calls) : Spawn(c)
    \/ \E k \in DOMAIN runs : WriteStatus(k)
    \/ \E k \in DOMAIN runs : \E o \in SomeOutcomes : RunCommand(k, o)
    \/ \E k \in DOMAIN runs : \E o \in SomeDiffOutcomes :
            CheckRequirements(k, o)
    \/ \E k \in DOMAIN runs : Release(k)

\* the update manager behind the apply and rollback requests
ApiSpec == Init /\ [][ApiNext]_vars

\* ----------------------------------------- a thread that cannot be started
\* update_to_tag: threading.Thread(...).start() raises RuntimeError (no
\* thread can be started); the exception leaves update_to_tag, after the
\* lock was acquired
SpawnFails(c) ==
    /\ c.pc = "spawn"
    /\ calls' = calls (-) SetToBag({c})
    /\ UNCHANGED <<lock, status, now, made, accepted, rejected, runs, ended,
                   checkouts>>
    /\ UNCHANGED pvars
    /\ UNCHANGED xvars

LaunchNext ==
    \/ \E tag \in Tags : Call(tag)
    \/ \E c \in BagToSet(calls) : TryAcquire(c)
    \/ \E c \in BagToSet(calls) : Reject(c)
    \/ \E c \in BagToSet(calls) : Spawn(c)
    \/ \E c \in BagToSet(calls) : SpawnFails(c)
    \/ \E k \in DOMAIN runs : WriteStatus(k)
    \/ \E k \in DOMAIN runs : \E o \in Outcomes : RunCommand(k, o)
    \/ \E k \in DOMAIN runs : \E o \in DiffOutcomes : CheckRequirements(k, o)
    \/ \E k \in DOMAIN runs : Release(k)

\* the update manager where starting a thread may fail
LaunchSpec == Init /\ [][LaunchNext]_vars

\* ------------------------------------------- the status and cache locks
\* a with block that keeps the lock when it is left
with_exit_keeps(holder) == holder

\* the lock when its holder leaves the with block
with_exit(holder) == "free"

\* the thread who is at a statement that enters "with self._status_lock";
\* a reader may call status at any time
AtStatusLock(who) ==
    CASE who = "run"    -> \E k \in DOMAIN runs : runs[k].pc \in WritePcs
      [] who = "call"   -> \E c \in BagToSet(calls) : c.pc = "reject"
      [] who = "reader" -> TRUE

\* the thread who is at a statement that enters "with self._lock" of the
\* poller; a reader may call data at any time
AtCacheLock(who) ==
    CASE who = "loop"   -> fetchers[1].pc = "store"
      [] who = "reader" -> TRUE

\* with self._status_lock: the thread who gets the lock, which was free
LockStatus(who) ==
    /\ locks.status = "free"
    /\ AtStatusLock(who)
    /\ locks' = [locks EXCEPT !.status = who]
    /\ UNCHANGED <<world, pre, held, replies, forced>>
    /\ UNCHANGED <<now, mvars, pvars>>

\* with self._lock: the thread who gets the poller's lock, which was free
LockCache(who) ==
    /\ locks.cache = "free"
    /\ AtCacheLock(who)
    /\ locks' = [locks EXCEPT !.cache = who]
    /\ UNCHANGED <<world, pre, held, replies, forced>>
    /\ UNCHANGED <<now, mvars, pvars>>

\* _set_status inside its with block, called by the run k: the assignment
\* to self._status, and the end of the block
SetStatusLocked(k) ==
    /\ locks.status = "run"
    /\ runs[k].pc \in WritePcs
    /\ LET a == StatusArgs(runs[k]) IN
        /\ status' = set_status(a.state, a.message, a.error, now)
        /\ runs' = [runs EXCEPT ![k].pc = AfterWrite(runs[k].pc),
                                ![k].written = Append(@, [state |-> a.state,
                                                          message |-> a.message])]
    /\ now' = now + 1
    /\ locks' = [locks EXCEPT !.status = with_exit(@)]
    /\ UNCHANGED <<lock, calls, made, accepted, rejected, ended, checkouts>>
    /\ UNCHANGED <<world, pre, held, replies, forced>>
    /\ UNCHANGED pvars

\* _set_status inside its with block, called by the rejected request
\* thread c, which then returns False
RejectLocked(c) ==
    /\ locks.status = "call"
    /\ c.pc = "reject"
    /\ status' = RejectedStatus(status, now)
    /\ now' = now + 1
    /\ LET b == rejected_branch(c.tag) IN
        /\ runs' = runs \o b.started
        /\ Return(c, b.ret)
    /\ locks' = [locks EXCEPT !.status = with_exit(@)]
    /\ UNCHANGED <<lock, made, ended, checkouts>>
    /\ UNCHANGED <<world, pre, held, replies, forced>>
    /\ UNCHANGED pvars

\* _fetch inside its with block, called by the thread of _run: the
\* assignment to self._cache, and the end of the block
StoreLocked(k) ==
    /\ locks.cache = "loop"
    /\ fetchers[k].pc = "store"
    /\ cache' = stored(cache, fetchers[k].result)
    /\ fetchers' = Returned(fetchers, k, "stored")
    /\ lastfetch' = FetchEnded(fetchers[k], fetchers[k].resp,
                               fetchers[k].describe, "stored")
    /\ locks' = [locks EXCEPT !.cache = with_exit(@)]
    /\ UNCHANGED <<fetched, now>>
    /\ UNCHANGED <<world, pre, held, replies, forced>>
    /\ UNCHANGED mvars

\* status or data inside its with block: the copy is made and the block
\* ends; the value goes to the caller
ReadLocked(which) ==
    /\ locks[which] = "reader"
    /\ locks' = [locks EXCEPT ![which] = with_exit(@)]
    /\ UNCHANGED <<world, pre, held, replies, forced>>
    /\ UNCHANGED <<now, mvars, pvars>>

\* The threads step by step through the with blocks: the pipeline and the
\* rejected calls, the thread of _run (a force_check thread runs the same
\* _fetch), and readers of status and of data.
LockNext ==
    \/ \E who \in {"run", "call", "reader"} : LockStatus(who)
    \/ \E who \in {"loop", "reader"} : LockCache(who)
    \/ \E k \in DOMAIN runs : SetStatusLocked(k)
    \/ \E c \in BagToSet(calls) : RejectLocked(c)
    \/ \E k \in DOMAIN fetchers : StoreLocked(k)
    \/ \E which \in {"status", "cache"} : ReadLocked(which)
    \/ \E tag \in {"v1.3.0"} : Call(tag)
    \/ \E c \in BagToSet(calls) : TryAcquire(c)
    \/ \E c \in BagToSet(calls) : Spawn(c)
    \/ \E k \in DOMAIN runs : \E o \in SomeOutcomes : RunCommand(k, o)
    \/ \E k \in DOMAIN runs : \E o \in SomeDiffOutcomes :
            CheckRequirements(k, o)
    \/ \E k \in DOMAIN runs : Release(k)
    \/ \E k \in DOMAIN fetchers : BeginFetch(k)
    \/ \E k \in DOMAIN fetchers : \E resp \in SomeResponses : Get(k, resp)
    \/ \E k \in DOMAIN fetchers : \E o \in SomeDescribes : Describe(k, o)
    \/ \E k \in DOMAIN fetchers : Sleep(k)

\* the update manager, the poller and the readers with the two locks of the
\* status and of the cache
LockSpec == Init /\ [][LockNext]_vars

\* ------------------------------------------------------- derived quantities
\* the number of request threads at position pc of update_to_tag
Pending(pc) ==
    LET at == {c \in BagToSet(calls) : c.pc = pc} IN
    BagCardinality([c \in at |-> calls[c]])

\* the holders of the update lock: a request thread that acquired it and has
\* not yet started its thread, and every live _do_update thread
Holders == Pending("spawn") + Len(runs)

\* ------------------------------------------------------------------ claims

\* C1: at most one pipeline run is in progress at any time, and the update
\* lock never has two holders, whatever the interleaving of the callers.
C1_SingleFlight == Len(runs) <= 1 /\ Holders <= 1 /\ (Holders = 1 => lock)

\* C1 witness: a run is in progress while another caller has found the lock
\* held.
C1_Witness == Len(runs) = 1 /\ Pending("reject") >= 1

\* the live runs for tag t that have not run their checkout command
AwaitingCheckout(t) ==
    Cardinality({k \in DOMAIN runs :
                    /\ runs[k].tag = t
                    /\ \A i \in DOMAIN runs[k].cmds :
                          runs[k].cmds[i].cmd # "checkout"})

\* C2: a call that finds the lock held does not wait (its acquire step can
\* always be taken), returns False, starts no thread and leaves the lock
\* alone; a tag is checked out only by the run of an accepted call for it, so
\* per tag the checkouts done and still to come never exceed the accepted
\* calls.
C2_RejectedNotQueued ==
    /\ [](/\ \A c \in BagToSet(calls) : c.pc = "acquire" => ENABLED TryAcquire(c)
          /\ \A t \in Tags : checkouts[t] + AwaitingCheckout(t) <= accepted[t])
    /\ [][\A c \in BagToSet(calls) :
            /\ (TryAcquire(c) /\ lock) =>
                    (calls' = Moved(c, "reject") /\ lock' = lock /\ runs' = runs)
            /\ Reject(c) =>
                    /\ runs' = runs
                    /\ lock' = lock
                    /\ rejected'[c.tag] = rejected[c.tag] + 1
                    /\ accepted' = accepted]_vars

\* C2 witness: a call for one tag was rejected while another tag's run was
\* accepted; everything has finished and the rejected tag was never checked
\* out.
C2_Witness ==
    \E t, u \in Tags :
        /\ t # u
        /\ rejected[t] = 1 /\ accepted[t] = 0 /\ checkouts[t] = 0
        /\ accepted[u] = 1 /\ checkouts[u] = 1
        /\ ended.pc = "done" /\ ended.tag = u
        /\ runs = <<>> /\ calls = EmptyBag

\* C3: a rejected update_to_tag call leaves the status record as it was.
C3_RejectLeavesStatus ==
    [][\A c \in BagToSet(calls) : Reject(c) => status' = status]_vars

\* C4: a call that finds the lock held writes status error with the error
\* text "Update already in progress", and returns False.
C4_RejectSetsError ==
    [][\A c \in BagToSet(calls) :
            /\ (TryAcquire(c) /\ lock) => calls' = Moved(c, "reject")
            /\ Reject(c) =>
                    /\ status'.state = "error"
                    /\ status'.error = AlreadyInProgress
                    /\ status'.timestamp = now
                    /\ rejected'[c.tag] = rejected[c.tag] + 1]_vars

\* C4 witness: a call was rejected while a run is in flight, and the status
\* shows its error.
C4_Witness ==
    /\ \E t \in Tags : rejected[t] >= 1
    /\ Len(runs) = 1
    /\ status.state = "error" /\ status.error = AlreadyInProgress

\* C5: when a run ends, by whatever path, it leaves the lock free; and once a
\* run has ended and nobody holds the lock, the next call's acquire succeeds
\* and the call returns True.
C5_LockFreeAfterRun ==
    [][/\ \A k \in DOMAIN runs :
            Release(k) => (~lock' /\ ended'.end \in {"ok", "nonzero", "raise"})
       /\ \A c \in BagToSet(calls) :
            /\ (TryAcquire(c) /\ ended.pc = "done" /\ Holders = 0) =>
                    (lock' /\ calls' = Moved(c, "spawn"))
            /\ Spawn(c) => accepted'[c.tag] = accepted[c.tag] + 1]_vars

\* C5 witness: a run ended through the except clause, and a later call has
\* been accepted and its run is in progress.
C5_Witness ==
    /\ ended.pc = "done" /\ ended.end = "raise"
    /\ Len(runs) = 1 /\ lock
    /\ \E t \in Tags : accepted[t] = 2 \/ (accepted[t] = 1 /\ ended.tag # t)

\* C6: on a free lock the acquire succeeds at once and starts nothing yet;
\* the call then starts exactly one thread, which has run no command and
\* written no status, returns True, and leaves the status alone: the run's
\* result only shows in the status written later.
C6_AcceptedStartsBackgroundRun ==
    [][\A c \in BagToSet(calls) :
            /\ (TryAcquire(c) /\ ~lock) =>
                    (lock' /\ calls' = Moved(c, "spawn") /\ runs' = runs)
            /\ Spawn(c) =>
                    /\ runs' = Append(runs, NewRun(c.tag))
                    /\ runs'[Len(runs')].cmds = <<>>
                    /\ runs'[Len(runs')].written = <<>>
                    /\ accepted'[c.tag] = accepted[c.tag] + 1
                    /\ status' = status
                    /\ checkouts' = checkouts]_vars

\* C6 witness: a call has returned True, its run exists and has done nothing
\* yet, and the status is still the initial one.
C6_Witness ==
    /\ \E t \in Tags : accepted[t] = 1
    /\ calls = EmptyBag
    /\ Len(runs) = 1 /\ runs[1].cmds = <<>> /\ runs[1].written = <<>>
    /\ status = InitStatus

\* the states of a sequence of written statuses
States(w) == [i \in DOMAIN w |-> w[i].state]

\* every command the run r ran exited 0
AllSucceeded(r) == \A i \in DOMAIN r.cmds : r.cmds[i].kind = "ok"

\* a run that has ended, every command succeeded, manifest unchanged
CleanRunEnded ==
    ended.pc = "done" /\ ended.end = "ok" /\ AllSucceeded(ended) /\ ~ended.needs_pip

C8_IdleAfterSuccessfulRun ==
    (/\ ended.pc = "done" /\ ended.end = "ok" /\ AllSucceeded(ended)
     /\ Holders = 0 /\ ~lock) =>
        (status.state = "idle" /\ Contains(status.message, ended.tag))

\* a step of the run r failed: a command raised (timeout included; the
\* manifest diff catches its own), or a command whose return code is tested
\* exited non-zero
Aborted(r) ==
    \E i \in DOMAIN r.cmds :
        \/ r.cmds[i].kind = "raise" /\ r.cmds[i].cmd # "diff"
        \/ r.cmds[i].kind = "nonzero" /\ r.cmds[i].cmd \in {"fetch", "checkout", "pip"}

\* C9 as stated: the last status an ended run wrote is idle, whether it
\* succeeded or failed.
C9_EndsIdle ==
    ended.pc = "done" => ended.written[Len(ended.written)].state = "idle"

\* C9 amended: every run eventually ends; the last status it wrote is error
\* when a step failed or raised, and idle when the restart command returned.
C9_EndsIdleOrError ==
    /\ [](ended.pc = "done" =>
            ended.written[Len(ended.written)].state =
                IF Aborted(ended) THEN "error" ELSE "idle")
    /\ (Len(runs) > 0) ~> (Len(runs) = 0)

\* C9 witness: a run has ended after a failed step and its last status is
\* error.
C9_Witness ==
    /\ ended.pc = "done" /\ Aborted(ended)
    /\ ended.written[Len(ended.written)].state = "error"
    /\ runs = <<>>

\* the live runs and the run that ended last
KnownRuns == {runs[k] : k \in DOMAIN runs} \cup {ended}

\* C10: in every run, a fetch, checkout, install or restart command that
\* exits non-zero or times out is the last command of the run, the run goes
\* on to write status error, and ends with the lock released.
C10_FailedStepAborts ==
    \A r \in KnownRuns : \A i \in DOMAIN r.cmds :
        (r.cmds[i].cmd \in {"fetch", "checkout", "pip", "restart"}
            /\ r.cmds[i].kind \in {"nonzero", "raise"}) =>
                /\ i = Len(r.cmds)
                /\ r.pc \in {"s_error", "release", "done"}
                /\ r.pc \in {"release", "done"} =>
                        r.written[Len(r.written)].state = "error"
                /\ (r.pc = "done" /\ Holders = 0) => ~lock

\* sub in s, for texts: s has sub as a contiguous part
ContainsText(s, sub) ==
    \E i \in 0..(Len(s) - Len(sub)) : SubSeq(s, i + 1, i + Len(sub)) = sub

\* the last command of the run r was a checkout that exited non-zero
CheckoutFailed(r) ==
    /\ r.cmds # <<>>
    /\ r.cmds[Len(r.cmds)] = [cmd |-> "checkout", kind |-> "nonzero"]

\* C11 as stated: when the checkout exits non-zero the run's last status is
\* error and its message contains the command's stderr text.
C11_MessageHasStderr ==
    (ended.pc = "done" /\ CheckoutFailed(ended)) =>
        /\ ended.written[Len(ended.written)].state = "error"
        /\ ContainsText(ended.written[Len(ended.written)].message,
                        strip(ended.stderr))

\* C11 amended: when the checkout exits non-zero the run's last status is
\* error, its message is empty and its error field is "git checkout failed: "
\* followed by the stripped stderr text.
C11_ErrorHasStderr ==
    /\ []((ended.pc = "done" /\ CheckoutFailed(ended)) =>
            /\ ended.written[Len(ended.written)] =
                    [state |-> "error", message |-> <<>>]
            /\ ended.err # None
            /\ strip(ended.stderr) # <<>>
            /\ ContainsText(ended.err, strip(ended.stderr)))
    /\ [][\A k \in DOMAIN runs :
            (WriteStatus(k) /\ runs[k].pc = "s_error") =>
                /\ status'.state = "error"
                /\ status'.message = <<>>
                /\ status'.error = runs[k].err]_vars

\* C11 witness: a run ended after its checkout exited non-zero, and the
\* status shows the error with the stderr text in the error field.
C11_Witness ==
    /\ ended.pc = "done" /\ CheckoutFailed(ended)
    /\ status.state = "error"
    /\ ContainsText(status.error, strip(ended.stderr))

\* C12: in every run, a manifest diff that exited non-zero or raised yields
\* needs_pip, and after a successful checkout the next command is the
\* dependency install.
C12_DiffFailureForcesInstall ==
    \A r \in KnownRuns : \A i \in DOMAIN r.cmds :
        (r.cmds[i].cmd = "diff" /\ r.cmds[i].kind \in {"nonzero", "raise"}) =>
            /\ r.needs_pip
            /\ (Len(r.cmds) >= i + 2 /\ r.cmds[i + 1].kind = "ok") =>
                    r.cmds[i + 2].cmd = "pip"

\* what the manifest diff of the run r reported: requirements.txt is in its
\* stdout, or the diff could not be run
ReportedChanged(r) ==
    \/ r.listed
    \/ \E i \in DOMAIN r.cmds : r.cmds[i] = [cmd |-> "diff", kind |-> "raise"]

\* the run r ran the command cmd
Ran(r, cmd) == \E i \in DOMAIN r.cmds : r.cmds[i].cmd = cmd

InstallingMessage == <<"Installing updated dependencies...">>

\* C13: in every run whose checkout succeeded (so its fetch did too), the
\* step after the checkout is the dependency install when the diff reported
\* a change and the restart when it did not; in the second case the run never
\* installs and never writes the installing status.
C13_InstallIffChanged ==
    \A r \in KnownRuns : \A i \in DOMAIN r.cmds :
        r.cmds[i] = [cmd |-> "checkout", kind |-> "ok"] =>
            /\ r.cmds[1] = [cmd |-> "fetch", kind |-> "ok"]
            /\ ReportedChanged(r) =>
                    IF Len(r.cmds) > i
                    THEN r.cmds[i + 1].cmd = "pip"
                    ELSE r.pc \in {"s_pip", "c_pip"}
            /\ ~ReportedChanged(r) =>
                    /\ IF Len(r.cmds) > i
                       THEN r.cmds[i + 1].cmd = "restart"
                       ELSE r.pc \in {"s_restart", "c_restart"}
                    /\ ~Ran(r, "pip")
                    /\ \A j \in DOMAIN r.written :
                            r.written[j].message # InstallingMessage
            /\ r.pc = "done" => (Ran(r, "pip") <=> ReportedChanged(r))

\* C13 witness: a run whose diff listed requirements.txt has ended, having
\* installed the dependencies after its checkout.
C13_Witness ==
    /\ ended.pc = "done" /\ ended.listed
    /\ Ran(ended, "checkout") /\ Ran(ended, "pip")
    /\ \E j \in DOMAIN ended.written : ended.written[j].message = InstallingMessage

\* the names of the commands the run r ran, in order
Names(r) == [i \in DOMAIN r.cmds |-> r.cmds[i].cmd]

\* the commands of the run r follow the pipeline order, each at most once
InPipelineOrder(r) ==
    \/ IsPrefix(Names(r), <<"fetch", "diff", "checkout", "pip", "restart">>)
    \/ IsPrefix(Names(r), <<"fetch", "diff", "checkout", "restart">>)

\* C14 as stated: the commands run in pipeline order, each at most once, and
\* checkout, install and restart run only after every earlier command of the
\* run exited 0.
C14_AllEarlierSucceeded ==
    \A r \in KnownRuns :
        /\ InPipelineOrder(r)
        /\ \A i \in DOMAIN r.cmds :
              r.cmds[i].cmd \in {"checkout", "pip", "restart"} =>
                  \A j \in 1..(i - 1) : r.cmds[j].kind = "ok"

\* C14 amended: the commands run in pipeline order, each at most once, and
\* checkout, install and restart run only after every earlier command other
\* than the manifest diff exited 0; a manifest diff that fails does not stop
\* the run.
C14_EarlierCheckedSucceeded ==
    \A r \in KnownRuns :
        /\ InPipelineOrder(r)
        /\ \A i \in DOMAIN r.cmds :
              r.cmds[i].cmd \in {"checkout", "pip", "restart"} =>
                  \A j \in 1..(i - 1) :
                      r.cmds[j].cmd # "diff" => r.cmds[j].kind = "ok"

\* C14 witness: a run has ended having run all five commands, the manifest
\* diff having failed.
C14_Witness ==
    /\ ended.pc = "done"
    /\ Names(ended) = <<"fetch", "diff", "checkout", "pip", "restart">>
    /\ ended.cmds[2].kind = "raise"

\* C15: with commands that return or time out and threads that are scheduled,
\* a held update lock is eventually free again with no run left, and a run
\* exists only while the lock is held.
C15_LockEventuallyFree ==
    /\ [](Len(runs) > 0 => lock)
    /\ lock ~> (~lock /\ runs = <<>>)

\* C15 witness: a run that hit an exception (a timeout) has ended and the
\* lock is free.
C15_Witness ==
    /\ ended.pc = "done" /\ ended.end = "raise"
    /\ ~lock /\ runs = <<>> /\ calls = EmptyBag

\* ------------------------------------------------------ UpdatePoller claims
\* the cache holds the snapshot the last ended _fetch call stored
Stored == lastfetch.end = "stored" /\ cache # <<>>

\* C16: the update_available a successful fetch stores equals (latest is not
\* null) and (current is not "unknown") and (latest is not current) and not
\* current.startswith(latest), for the latest tag and the current version of
\* that fetch.
C16_UpdateAvailableFormula ==
    Stored =>
        LET latest == cache.latest_tag
            current == cache.current_version
        IN  /\ cache.update_available =
                    (/\ latest # None
                     /\ current # Unknown
                     /\ latest # current
                     /\ ~IsPrefix(latest, current))
            /\ lastfetch.describe.kind = "ok" =>
                    current = strip(lastfetch.describe.stdout)
            /\ lastfetch.describe.kind # "ok" => current = Unknown
            /\ latest = IF cache.available_tags = <<>> THEN None
                        ELSE cache.available_tags[1]

\* C16 witness: a fetch stored update_available = true for a current version
\* that differs from the latest tag and does not start with it.
C16_Witness ==
    /\ Stored
    /\ cache.update_available
    /\ cache.latest_tag = <<"v1.3">>
    /\ cache.current_version = <<"v1.2", "-5-gabc123">>

\* the suffix git describe appends when the tree is ahead of the tag
AheadSuffixes == {<<"-5-gabc123">>}

\* C17: a successful fetch stores update_available = false when the current
\* version equals the latest tag and when it is the latest tag followed by a
\* commit-distance suffix.
C17_NoUpdateOnOrAheadOfLatest ==
    (/\ Stored
     /\ cache.latest_tag # None
     /\ \/ cache.current_version = cache.latest_tag
        \/ \E x \in AheadSuffixes :
                cache.current_version = cache.latest_tag \o x)
        => ~cache.update_available

\* C17 witness: a fetch stored a snapshot whose current version is the latest
\* tag followed by a commit-distance suffix.
C17_Witness ==
    /\ Stored
    /\ cache.latest_tag = <<"v1.2">>
    /\ cache.current_version = <<"v1.2", "-5-gabc123">>
    /\ ~cache.update_available

\* C18: when git describe exits non-zero or raises, get_current_version
\* returns "unknown" and does not raise, and a fetch whose current version is
\* "unknown" stores update_available = false whatever the latest tag is.
C18_UnknownVersionNoUpdate ==
    /\ \A o \in DescribeOutcomes :
            o.kind # "ok" =>
                get_current_version(o) = [raised |-> FALSE, value |-> Unknown]
    /\ (Stored /\ lastfetch.describe.kind # "ok") =>
            /\ cache.current_version = Unknown
            /\ ~cache.update_available
    /\ (Stored /\ cache.current_version = Unknown) => ~cache.update_available

\* C18 witness: a fetch whose git describe exited non-zero stored a snapshot
\* with a latest tag and no update available.
C18_Witness ==
    /\ Stored
    /\ lastfetch.describe.kind = "nonzero"
    /\ cache.latest_tag = <<"v1.3">>
    /\ cache.current_version = Unknown
    /\ ~cache.update_available

\* C19: a fetch whose request raises, whose response is not ok or whose
\* payload is not a JSON array returns to its caller and leaves data as it
\* was before the fetch: the previous snapshot, or None when there was none.
C19_FailedFetchKeepsData ==
    /\ []((lastfetch.end = "failed" /\ FetchFails(lastfetch.resp)) =>
            /\ data(cache) = data(lastfetch.before)
            /\ lastfetch.before = <<>> => data(cache) = NoData)
    /\ [][\A k \in DOMAIN fetchers : \A resp \in Responses :
            (Get(k, resp) /\ (resp.kind \in {"raise", "notok"}
                                \/ resp.json.type # "list")) =>
                /\ data(cache') = data(cache)
                /\ fetchers'[k].pc = "sleep"
                /\ lastfetch'.end = "failed"]_vars

\* C19 witness: a fetch failed after an earlier one had stored a snapshot,
\* and data is still that snapshot.
C19_Witness ==
    /\ lastfetch.end = "failed"
    /\ lastfetch.resp.kind = "notok"
    /\ lastfetch.before # <<>>
    /\ data(cache) = lastfetch.before

\* the names of the entries of the feed that have one, in the feed's order
FeedNames(items) ==
    LET named == SelectSeq(items, LAMBDA t : "name" \in DOMAIN t)
    IN  [i \in 1..Len(named) |-> named[i].name]

\* C20: the snapshot a successful fetch stores has the feed's tag names in
\* the order returned as available_tags, the first of them as latest_tag
\* (None when there is none), and update_available = false when latest_tag
\* is None.
C20_SnapshotConsistentWithFeed ==
    Stored =>
        /\ lastfetch.resp.kind = "ok" /\ lastfetch.resp.json.type = "list"
        /\ cache.available_tags = FeedNames(lastfetch.resp.json.items)
        /\ cache.available_tags # <<>> =>
                cache.latest_tag = cache.available_tags[1]
        /\ cache.available_tags = <<>> => cache.latest_tag = None
        /\ cache.latest_tag = None => ~cache.update_available

\* C20 witness: a fetch stored the snapshot of a feed of two named tags.
C20_Witness ==
    /\ Stored
    /\ lastfetch.resp.json.items = <<[name |-> <<"v1.3">>], [name |-> <<"v1.2">>]>>
    /\ cache.available_tags = <<<<"v1.3">>, <<"v1.2">>>>
    /\ cache.latest_tag = <<"v1.3">>

\* C21: whatever a caller does to a value data returned, the cached snapshot
\* and what later data reads return stay as they were.
C21_DataIsDefensiveCopy ==
    [][(\E i \in DOMAIN held : MutateTags(i) \/ MutateField(i)) =>
            /\ cache' = cache
            /\ data(cache') = data(cache)]_vars

\* the state and message arguments of the _set_status calls of one run
OneRunWrites(tag) ==
    {[state |-> "updating", message |-> <<"Fetching tags...">>],
     [state |-> "updating", message |-> <<"Checking out ", tag, "...">>],
     [state |-> "updating", message |-> <<"Installing updated dependencies...">>],
     [state |-> "restarting",
      message |-> <<"Restarting service after update to ", tag, "...">>],
     [state |-> "idle", message |-> <<"Updated to ", tag>>]}

\* the status record r is the initial one or has the four fields of one
\* _set_status call
WholeStatus(r) ==
    \/ r = InitStatus
    \/ /\ r.timestamp > 0
       /\ \/ r.state = "error" /\ r.message = <<>> /\ r.error # None
          \/ /\ r.error = None
             /\ \E tag \in Tags :
                    [state |-> r.state, message |-> r.message]
                        \in OneRunWrites(tag)

\* the fields of the snapshot d agree with each other as the fields one
\* _fetch call computes do
WholeSnapshot(d) ==
    /\ d.latest_tag = IF d.available_tags = <<>> THEN None
                      ELSE d.available_tags[1]
    /\ d.update_available =
            (/\ d.latest_tag # None
             /\ d.current_version # Unknown
             /\ d.latest_tag # d.current_version
             /\ ~IsPrefix(d.latest_tag, d.current_version))
    /\ d.last_checked > 0

\* C22: every status read returns the record as one transition wrote it and
\* every data read returns the snapshot as one fetch built it, for any
\* interleaving of the reads with fetches, pipeline steps and rejected calls;
\* each write replaces the whole record.
C22_ReadsAreAtomic ==
    /\ [](\A i \in DOMAIN held :
            /\ held[i].kind = "status" => WholeStatus(held[i].value)
            /\ held[i].kind = "data" =>
                    held[i].value = NoData \/ WholeSnapshot(held[i].value))
    /\ [][ReadStatus => held'[Len(held')].value = status]_vars
    /\ [][ReadData => held'[Len(held')].value = data(cache)]_vars
    /\ [][status' # status =>
            status'.timestamp = now /\ WholeStatus(status')]_vars
    /\ [][cache' # cache =>
            cache'.last_checked < now' /\ WholeSnapshot(cache')]_vars

\* C22 witness: a status read made while a run is in flight returned the
\* record a rejected call wrote.
C22_Witness ==
    /\ runs # <<>>
    /\ \E i \in DOMAIN held :
            /\ held[i].kind = "status"
            /\ held[i].value.state = "error"
            /\ held[i].value.error = AlreadyInProgress
            /\ held[i].value.timestamp > 0

\* ------------------------------------------------ claims on preflight_check
\* the commands and checks the preflight_check call has made, in order
ProbesMade == [i \in DOMAIN pre.probes |-> pre.probes[i].cmd]

\* the preflight_check call has returned
PreflightDone == pre.pc = "done"

\* C23: preflight_check stops at the first failing hard check.  Where git is
\* not installed it returns (False, ["git is not installed"]) having made
\* the git probe only; where git is installed and the directory is not a
\* repository it returns (False, ["Not a git repository"]) having made the
\* git and the repository probes only.  No venv check or restart probe is
\* made in either case, and the issues list has that one entry.
C23_StopsAtFirstHardFailure ==
    /\ ~world.git => pre.pc # "raised"
    /\ PreflightDone /\ ~world.git =>
            /\ pre.ok = FALSE
            /\ pre.issues = <<GitMissing>>
            /\ ProbesMade = <<"git">>
    /\ PreflightDone /\ world.git /\ ~world.repo =>
            /\ pre.ok = FALSE
            /\ pre.issues = <<NotARepository>>
            /\ ProbesMade = <<"git", "repo">>

C23_Witness ==
    /\ PreflightDone
    /\ world.git /\ ~world.repo
    /\ pre.issues = <<NotARepository>>

\* every check of the preflight_check call was made and passed
AllChecksPassed ==
    /\ ProbesMade = <<"git", "repo", "venv", "sudo">>
    /\ pre.probes[2].out = "ok"
    /\ pre.probes[3].out = "ok"
    /\ pre.sudo.kind = "exit" /\ pre.sudo.rc \in {0, 3}

C25_UncommittedReported ==
    PreflightDone /\ world.dirty /\ Len(pre.probes) = 4 =>
        /\ pre.ok = FALSE
        /\ \E i \in DOMAIN pre.issues : Contains(pre.issues[i], "Uncommitted")

\* the restart probe with the outcome o failed: it could not be run, or it
\* exited with a code that is neither active (0) nor inactive (3)
ProbeFailed(o) == o.kind = "raise" \/ (o.kind = "exit" /\ o.rc \notin {0, 3})

\* C26: every failure of the restart probe adds an issue: the sudo issue
\* when the failure shows sudo is not configured, the generic issue for any
\* other failure (another failing exit code, or a probe that cannot be run).
C26_EveryProbeFailureReported ==
    PreflightDone /\ pre.sudo # NoSudo /\ ProbeFailed(pre.sudo) =>
        /\ pre.issues # <<>>
        /\ pre.issues[Len(pre.issues)] =
                IF pre.sudo.kind = "exit" /\ Contains(pre.sudo.stderr, "sudo")
                THEN SudoNotConfigured
                ELSE CannotRunSudo

\* C27: when a preflight blocker is present (git is missing or the working
\* directory is not a repository) the pipeline never starts: no
\* update_to_tag call launches a run, and no pipeline command is executed.
C27_BlockerStartsNoRun ==
    Blocker(world) =>
        /\ runs = <<>>
        /\ ended = NoRun
        /\ \A tag \in Tags : checkouts[tag] = 0

\* C28: an apply or rollback request without a target tag is rejected to
\* the caller at once: it never reaches update_to_tag, so it acquires no
\* lock, launches no run, executes no command and leaves the status as it
\* was; its only effect is the answer 400.
C28_MissingTagRejected ==
    /\ [](\A c \in BagToSet(calls) : c.tag \in Tags)
    /\ [](\A k \in DOMAIN runs : runs[k].tag \in Tags)
    /\ [](\A i \in DOMAIN replies :
            replies[i].tag = NoTag /\ replies[i].code = 400)
    /\ [][replies' # replies =>
            /\ replies' = Append(replies, replies'[Len(replies')])
            /\ lock' = lock
            /\ status' = status
            /\ runs' = runs
            /\ calls' = calls
            /\ UNCHANGED <<made, accepted, rejected, ended, checkouts>>]_vars

C28_Witness ==
    /\ replies # <<>>
    /\ replies[1].kind = "rollback"
    /\ lock = TRUE
    /\ \E k \in DOMAIN runs : runs[k].cmds # <<>>

\* ------------------------------------------------ claims on the threads
\* the threads force_check started that have not ended
LiveForced == {k \in DOMAIN fetchers : fetchers[k].kind = "forced"}

\* the number of fetches started by force_check that have ended
ForcedEnded == forced - Cardinality(LiveForced)

\* C29: force_check returns without waiting for the fetch.  Each call starts
\* exactly one thread, which has not fetched when the call returns; the
\* call itself changes neither the cache nor anything a caller holds; each
\* started thread fetches once and ends, and every one of them eventually
\* has: what it fetched is seen through data only.
C29_ForceCheckFireAndForget ==
    /\ [][forced' # forced =>
            /\ forced' = forced + 1
            /\ fetchers' = Append(fetchers, ForcedThread)
            /\ fetchers'[Len(fetchers')].pc = "loop"
            /\ cache' = cache
            /\ lastfetch' = lastfetch
            /\ held' = held /\ replies' = replies]_vars
    /\ [](Cardinality(LiveForced) <= forced)
    /\ [](\A k \in DOMAIN fetchers : k > 1 => fetchers[k].kind = "forced")
    /\ \A n \in 1..MaxForced : (forced >= n) ~> (ForcedEnded >= n)

C29_Witness ==
    /\ forced >= 1
    /\ LiveForced = {}
    /\ fetched = 0
    /\ cache # <<>>

\* the positions of a thread inside _fetch
FetchPcs == {"get", "describe", "store"}

\* C30: after start() the loop fetches at once and then alternates fetch
\* and sleep for ever: the thread of _run never ends, it sleeps only after
\* a fetch and fetches after each sleep, and every fetch, stored or failed,
\* is followed by another one.
C30_LoopNeverEnds ==
    /\ [](fetchers # <<>> /\ fetchers[1].kind = "run")
    /\ [](fetched = 0 => fetchers # <<>> /\ fetchers[1].pc = "loop")
    /\ [][fetchers # <<>> /\ fetchers' # <<>>
            /\ fetchers'[1].pc # fetchers[1].pc =>
                \/ fetchers[1].pc = "loop" /\ fetchers'[1].pc = "get"
                \/ fetchers[1].pc \in FetchPcs
                        /\ fetchers'[1].pc \in FetchPcs \cup {"sleep"}
                \/ fetchers[1].pc = "sleep" /\ fetchers'[1].pc = "loop"]_vars
    /\ \A n \in 0..(MaxFetches - 1) : (fetched = n) ~> (fetched = n + 1)

C30_Witness ==
    /\ forced = 0
    /\ fetched >= 2
    /\ lastfetch.end = "failed"
    /\ fetchers[1].pc = "get"

\* -------------------------------------------------- claims on the locks
\* the run r is at an external command: subprocess.run has not returned
CommandInProgress(r) == r.pc \in CommandPcs \cup {"c_diff"}

\* the thread f is at requests.get or at git describe, which has not
\* returned
RequestInProgress(f) == f.pc \in {"get", "describe"}

\* C31: neither the status lock nor the cache lock is held while an external
\* command or a remote request is in progress: the run that holds the
\* status lock is at a status write, never at a command, and the fetching
\* thread that holds the cache lock is at its store, never at its request
\* or at git describe.  So a read finds each lock free or held by a thread
\* that is about to leave its with block.
C31_NoLockAcrossExternalCall ==
    /\ locks.status = "run" =>
            /\ runs # <<>>
            /\ \A k \in DOMAIN runs : ~CommandInProgress(runs[k])
    /\ locks.cache = "loop" => ~RequestInProgress(fetchers[1])
    /\ (\E k \in DOMAIN runs : CommandInProgress(runs[k])) =>
            locks.status \in {"free", "reader", "call"}
    /\ (\E k \in DOMAIN fetchers : RequestInProgress(fetchers[k])) =>
            locks.cache \in {"free", "reader"}

C31_Witness ==
    /\ locks.status = "reader"
    /\ locks.cache = "reader"
    /\ \E k \in DOMAIN runs : runs[k].pc = "c_checkout"
    /\ fetchers[1].pc = "get"

\* ------------------------------------------ claims on overlapping fetches
\* the snapshot the _fetch call f built from the response and the git
\* describe outcome it got, stamped t
SnapshotOf(f, t) ==
    build_result(get_current_version(f.describe).value,
                 tag_names(f.resp.json.items), t)

\* C32: when a force_check fetch and a periodic fetch overlap and both
\* succeed, the cache ends as the whole snapshot of the one that stored
\* last: every change of the cache puts there the result one thread built,
\* field for field, and after a store the cache is the snapshot of the call
\* that stored last, never a mix of two.
C32_LastStoreWins ==
    /\ [][cache' # cache =>
            \E k \in DOMAIN fetchers :
                /\ fetchers[k].pc = "store"
                /\ cache' = fetchers[k].result
                /\ lastfetch'.resp = fetchers[k].resp
                /\ lastfetch'.describe = fetchers[k].describe]_vars
    /\ [](lastfetch.end = "stored" =>
            cache = SnapshotOf(lastfetch, cache.last_checked))

C32_Witness ==
    /\ forced = 1 /\ fetched = 1
    /\ Len(fetchers) = 1 /\ fetchers[1].pc = "sleep"
    /\ lastfetch.end = "stored"
    /\ now = 3
    /\ cache.last_checked = 1
    /\ cache.latest_tag = <<"v1.3">>

\* ------------------------------------------- claims on tags and payloads
\* C33: a current version is never treated as equal to a different tag:
\* whenever the latest tag is there, the current version is not "unknown",
\* and it is neither the latest tag nor the latest tag followed by a
\* commit-distance suffix, a successful fetch stores update_available =
\* true, also when the latest tag's name is a prefix of the current
\* version's tag.
C33_DifferentTagMeansUpdate ==
    (/\ Stored
     /\ cache.latest_tag # None
     /\ cache.latest_tag # <<>>
     /\ cache.current_version # Unknown
     /\ cache.current_version # cache.latest_tag
     /\ \A x \in AheadSuffixes :
            cache.current_version # cache.latest_tag \o x)
        => cache.update_available

\* the payload of the response resp is a list with an entry that has no
\* name
HasNamelessEntry(resp) ==
    /\ resp.kind = "ok"
    /\ resp.json.type = "list"
    /\ \E i \in DOMAIN resp.json.items : "name" \notin DOMAIN resp.json.items[i]

\* C34: a feed payload that is a list with an entry without a name is
\* treated as a fetch failure: the fetch that got it ends as failed, the
\* cache is as it found it, and no snapshot of the other entries is stored.
C34_NamelessEntryFails ==
    lastfetch.end # "none" /\ HasNamelessEntry(lastfetch.resp) =>
        /\ lastfetch.end = "failed"
        /\ cache = lastfetch.before

\* ------------------------------------------------ claims on the pipeline
\* the restart command of the run r has returned, with whatever exit code
RestartReturned(r) ==
    \E i \in DOMAIN r.cmds :
        r.cmds[i].cmd = "restart" /\ r.cmds[i].kind \in {"ok", "nonzero"}

\* C35: the run treats the submission of the restart request as success:
\* once the restart command has returned, whatever its exit code, the run
\* runs no further command (it neither waits for the service nor checks
\* it) and writes status idle with message "Updated to <tag>".
C35_RestartSubmissionIsSuccess ==
    \A r \in KnownRuns :
        RestartReturned(r) =>
            /\ r.cmds[Len(r.cmds)].cmd = "restart"
            /\ r.pc \in {"s_idle", "release", "done"}
            /\ r.end = "ok"
            /\ r.pc \in {"release", "done"} =>
                    r.written[Len(r.written)] =
                        [state |-> "idle", message |-> <<"Updated to ", r.tag>>]

C35_Witness ==
    /\ ended.pc = "done"
    /\ ended.cmds # <<>>
    /\ ended.cmds[Len(ended.cmds)] = [cmd |-> "restart", kind |-> "nonzero"]
    /\ ended.written[Len(ended.written)].state = "idle"

\* C36: whenever the status state is updating or restarting, a pipeline run
\* is in progress and the update lock is held; and whenever no run is in
\* flight the status state is idle or error.
C36_BusyStateMeansRun ==
    /\ status.state \in {"updating", "restarting"} =>
            /\ runs # <<>>
            /\ lock = TRUE
    /\ runs = <<>> => status.state \in {"idle", "error"}

C36_Witness ==
    /\ status.state = "restarting"
    /\ Len(runs) = 1
    /\ runs[1].pc = "c_restart"
    /\ lock = TRUE

\* the run r has written its final status, idle or error
WroteFinal(r) ==
    r.written # <<>> /\ r.written[Len(r.written)].state \in {"idle", "error"}

\* C37: once update_to_tag has returned True, no status read made before
\* that run writes its final status sees the record from before the call:
\* every such read returns state updating or restarting, never the idle or
\* error left by what came earlier.
C37_NoStaleStatusAfterAccept ==
    \A i \in DOMAIN held :
        (/\ held[i].kind = "status"
         /\ runs # <<>>
         /\ \A k \in DOMAIN runs : ~WroteFinal(runs[k]))
            => held[i].value.state \in {"updating", "restarting"}

\* C38: whenever the update lock is held there is a pipeline run in progress
\* that will release it, or a call that has just acquired it and is
\* launching that run: no path through update_to_tag, a failure to launch
\* the thread included, leaves the lock held with no _do_update running.
C38_HeldLockHasRun ==
    lock = TRUE => Len(runs) >= 1 \/ Pending("spawn") >= 1

\* C39: the last_checked of the cached snapshot never goes backwards: under
\* any overlap of periodic and forced fetches, a data read made after a
\* store returns a last_checked that is not earlier than the one a read
\* made before it returned.
C39_LastCheckedMonotonic ==
    [][cache # <<>> /\ cache' # <<>> =>
            data(cache').last_checked >= data(cache).last_checked]_vars

\* C40: preflight_check never raises: for every outcome of its probes (git
\* missing, a probe that times out, any exit code) the call returns an
\* (ok, issues) pair.
C40_PreflightNeverRaises == pre.pc # "raised"

====
